---------------------------- MODULE Spec2Model ----------------------------
(***************************************************************************)
(* Model of the Markdown rendering pipeline of app.py (render_markdown):   *)
(*   fix_list_spacing -> process_math_pre_markdown -> md.convert ->        *)
(*   restore_math.                                                         *)
(*                                                                         *)
(* A text is a sequence of symbols.  A symbol is a one-character string,   *)
(* or a whole placeholder key "MATHPLACEHOLDER<hex>ENDMATHPLACEHOLDER":    *)
(* a key is made of letters and digits only, so no pattern of the program  *)
(* can match inside it or split it, and it is kept as one symbol.          *)
(***************************************************************************)
EXTENDS Naturals, Sequences, FiniteSets, TLC

VARIABLES
    pc,            \* per worker: the position inside render_markdown
    doc,           \* per worker: the file content read (f.read())
    md_content,    \* per worker: md_content after fix_list_spacing
    text,          \* per worker: the text with placeholders (final_md_content)
    placeholders,  \* per worker: reference to its placeholders dict (0: none)
    heap,          \* the dict objects: reference -> sequence of <<key, value>>
    html,          \* per worker: html_content
    uuids,         \* number of uuid4() values drawn so far
    budget         \* requests still to arrive

vars == <<pc, doc, md_content, text, placeholders, heap, html, uuids, budget>>

-----------------------------------------------------------------------------
(* Bounds of the model.                                                    *)

MaxLen == 5          \* longest document drawn symbol by symbol
MaxLines == 3        \* most lines of a document drawn line by line
NumWorkers == 2      \* concurrent invocations of render_markdown
MaxRequests == 3     \* requests served in a concurrent run

-----------------------------------------------------------------------------
(* Character classes of Python's re and str.                               *)

NL == "\n"
BS == "\\"

Digits == {"0", "1", "2", "3", "4", "5", "6", "7", "8", "9"}

Letters ==
    {"a", "b", "c", "d", "e", "f", "g", "h", "i", "j", "k", "l", "m",
     "n", "o", "p", "q", "r", "s", "t", "u", "v", "w", "x", "y", "z",
     "A", "B", "C", "D", "E", "F", "G", "H", "I", "J", "K", "L", "M",
     "N", "O", "P", "Q", "R", "S", "T", "U", "V", "W", "X", "Y", "Z"}

\* \s and str.strip(): the whitespace that occurs in the modelled documents
IsSpace(c) == c \in {" ", NL}

\* a placeholder key is the only symbol longer than one character
IsKey(c) == Len(c) > 1

\* [a-zA-Z0-9]: a key consists of such characters only
IsAlnum(c) == c \in Letters \/ c \in Digits \/ IsKey(c)

\* the characters replace_bracket_math takes as signs of math
FormulaChars == {BS, "^", "_", "{", "}", "=", "<", ">", "+", "-", "*", "/"}

\* f"MATHPLACEHOLDER{uuid.uuid4().hex}ENDMATHPLACEHOLDER" for the k-th uuid
\* drawn: uuid4() is modelled as returning a value never returned before
PlaceholderKey(k) == "MATHPLACEHOLDER" \o ToString(k) \o "ENDMATHPLACEHOLDER"

-----------------------------------------------------------------------------
(* Sequence helpers.                                                       *)

\* s[i..] , possibly empty
From(s, i) == SubSeq(s, i, Len(s))

\* least j in lo..Len(s) with s[j] = c, or 0
RECURSIVE Find(_, _, _)
Find(s, c, lo) ==
    IF lo > Len(s) THEN 0
    ELSE IF s[lo] = c THEN lo
    ELSE Find(s, c, lo + 1)

\* str.strip()
RECURSIVE LStrip(_)
LStrip(s) ==
    IF s # <<>> /\ IsSpace(Head(s)) THEN LStrip(Tail(s)) ELSE s

RECURSIVE RStrip(_)
RStrip(s) ==
    IF s # <<>> /\ IsSpace(s[Len(s)]) THEN RStrip(SubSeq(s, 1, Len(s) - 1)) ELSE s

Strip(s) == RStrip(LStrip(s))

\* str.split('\n'): the lines of s, at least one
RECURSIVE Split(_)
Split(s) ==
    LET j == Find(s, NL, 1)
    IN  IF j = 0 THEN <<s>>
        ELSE <<SubSeq(s, 1, j - 1)>> \o Split(From(s, j + 1))

\* '\n'.join(lines)
RECURSIVE Join(_)
Join(lines) ==
    IF lines = <<>> THEN <<>>
    ELSE IF Len(lines) = 1 THEN lines[1]
    ELSE lines[1] \o <<NL>> \o Join(Tail(lines))

\* str.replace(key, val) for a key that is one symbol
RECURSIVE Replace(_, _, _)
Replace(s, key, val) ==
    IF s = <<>> THEN <<>>
    ELSE (IF Head(s) = key THEN val ELSE <<Head(s)>>) \o Replace(Tail(s), key, val)

-----------------------------------------------------------------------------
(* fix_list_spacing                                                        *)

\* length of the run of symbols satisfying \s from position i on
RECURSIVE SpaceRun(_, _)
SpaceRun(s, i) ==
    IF i <= Len(s) /\ IsSpace(s[i]) THEN 1 + SpaceRun(s, i + 1) ELSE 0

\* length of the run of digits from position i on
RECURSIVE DigitRun(_, _)
DigitRun(s, i) ==
    IF i <= Len(s) /\ s[i] \in Digits THEN 1 + DigitRun(s, i + 1) ELSE 0

\* list_item_pattern.match(line): ^(\s*([*+-]|\d+\.)\s+)
list_item_pattern(line) ==
    LET k == SpaceRun(line, 1)          \* \s*
        d == DigitRun(line, k + 1)      \* \d+
        m == IF k + 1 <= Len(line) /\ line[k + 1] \in {"*", "+", "-"}
                 THEN k + 1
             ELSE IF d >= 1 /\ k + d + 1 <= Len(line) /\ line[k + d + 1] = "."
                 THEN k + d + 1
             ELSE 0                     \* position of the marker's last symbol
    IN  m > 0 /\ m + 1 <= Len(line) /\ IsSpace(line[m + 1])

\* (mutation) the test without its look at the previous line's own marker
NeedsBlankAnyPrev(lines, i) ==
    /\ i > 1
    /\ list_item_pattern(lines[i])
    /\ Strip(lines[i - 1]) # <<>>

\* the test of the loop: new_lines.append('') before line i
NeedsBlank(lines, i) ==
    /\ i > 1
    /\ list_item_pattern(lines[i])
    /\ Strip(lines[i - 1]) # <<>>
    /\ ~list_item_pattern(lines[i - 1])

\* the loop of fix_list_spacing from line i on
RECURSIVE FixLines(_, _)
FixLines(lines, i) ==
    IF i > Len(lines) THEN <<>>
    ELSE (IF NeedsBlank(lines, i) THEN << <<>> >> ELSE <<>>) \o <<lines[i]>>
             \o FixLines(lines, i + 1)

fix_list_spacing(markdown_content) ==
    Join(FixLines(Split(markdown_content), 1))

-----------------------------------------------------------------------------
(* fix_math_content                                                        *)

\* length of the run of [a-zA-Z0-9] from position i on
RECURSIVE AlnumRun(_, _)
AlnumRun(s, i) ==
    IF i <= Len(s) /\ IsAlnum(s[i]) THEN 1 + AlnumRun(s, i + 1) ELSE 0

\* (mutation) the pattern _(.) in place of _([a-zA-Z0-9]+)
SubscriptRunAny(s, i) == IF i + 1 <= Len(s) THEN 1 ELSE 0

\* the length of the match of [a-zA-Z0-9]+ after the "_" at position i
SubscriptRun(s, i) == AlnumRun(s, i + 1)

\* re.sub(r'_([a-zA-Z0-9]+)', r'_{\1}', s) from position i on
RECURSIVE BraceSubscripts(_, _)
BraceSubscripts(s, i) ==
    IF i > Len(s) THEN <<>>
    ELSE LET n == IF s[i] = "_" THEN SubscriptRun(s, i) ELSE 0
         IN  IF n > 0
             THEN <<"_", "{">> \o SubSeq(s, i + 1, i + n) \o <<"}">>
                      \o BraceSubscripts(s, i + n + 1)
             ELSE <<s[i]>> \o BraceSubscripts(s, i + 1)

\* (mutation) the content with its line breaks left in
KeepNewlines(content) == content

\* content.replace('\n', ' ')
RemoveNewlines(content) == Replace(content, NL, <<" ">>)

fix_math_content(content) == BraceSubscripts(RemoveNewlines(content), 1)

-----------------------------------------------------------------------------
(* process_math_pre_markdown                                               *)

\* (mutation) the test of is_display inverted
WrapInverted(fixed_content, is_display, delimiter_type) ==
    IF delimiter_type = "bracket"
        THEN <<BS, "[", " ">> \o fixed_content \o <<" ", BS, "]">>
    ELSE IF ~is_display
        THEN <<"$", "$", " ">> \o fixed_content \o <<" ", "$", "$">>
    ELSE <<"$", " ">> \o fixed_content \o <<" ", "$">>

\* the delimiters store_math puts around the fixed content
Wrap(fixed_content, is_display, delimiter_type) ==
    IF delimiter_type = "bracket"
        THEN <<BS, "[", " ">> \o fixed_content \o <<" ", BS, "]">>
    ELSE IF is_display
        THEN <<"$", "$", " ">> \o fixed_content \o <<" ", "$", "$">>
    ELSE <<"$", " ">> \o fixed_content \o <<" ", "$">>

\* store_math: the key returned and the value stored under it, for the k-th uuid
store_math(content, is_display, delimiter_type, k) ==
    [key |-> PlaceholderKey(k),
     val |-> Wrap(fix_math_content(content), is_display, delimiter_type)]

\* whether s has n "$" at position i
Dollars(n, s, i) ==
    /\ i + n - 1 <= Len(s)
    /\ \A k \in 0 .. n - 1 : s[i + k] = "$"

\* least j >= lo where s has n "$", or 0
RECURSIVE FindDollars(_, _, _)
FindDollars(n, s, lo) ==
    IF lo + n - 1 > Len(s) THEN 0
    ELSE IF Dollars(n, s, lo) THEN lo
    ELSE FindDollars(n, s, lo + 1)

\* A pass is run on an accumulator: the text written so far, the entries
\* stored so far (in the order of insertion), the uuids drawn so far.
Stored(acc, m) ==
    [text |-> Append(acc.text, m.key),
     ph |-> Append(acc.ph, <<m.key, m.val>>),
     uuids |-> acc.uuids + 1]

Copied(acc, s) == [acc EXCEPT !.text = @ \o s]

\* re.sub(r'\$\$(.*?)\$\$', ...) for n = 2, re.sub(r'\$(.*?)\$', ...) for
\* n = 1, with flags=re.DOTALL, from position i on
RECURSIVE sub_dollar(_, _, _, _)
sub_dollar(n, s, i, acc) ==
    IF i > Len(s) THEN acc
    ELSE LET j == IF Dollars(n, s, i) THEN FindDollars(n, s, i + n) ELSE 0
         IN  IF j = 0
             THEN sub_dollar(n, s, i + 1, Copied(acc, <<s[i]>>))
             ELSE sub_dollar(n, s, j + n,
                      Stored(acc, store_math(SubSeq(s, i + n, j - 1), n = 2,
                                             "dollar", acc.uuids + 1)))

\* (mutation) no heuristic: every bracket is taken as math
LooksLikeMathAlways(math_content) == TRUE

\* the heuristic of replace_bracket_math
LooksLikeMath(math_content) ==
    \E i \in 1 .. Len(math_content) : math_content[i] \in FormulaChars

\* re.sub(r'\[\s*(.*?)\s*\]', replace_bracket_math, ...) with re.DOTALL, from
\* position i on: a match runs from a "[" to the first "]" after it, and
\* group(1).strip() is what lies between them, stripped
RECURSIVE replace_bracket_math(_, _, _)
replace_bracket_math(s, i, acc) ==
    IF i > Len(s) THEN acc
    ELSE LET q == IF s[i] = "[" THEN Find(s, "]", i + 1) ELSE 0
             math_content == Strip(SubSeq(s, i + 1, q - 1))
         IN  IF q = 0
             THEN replace_bracket_math(s, i + 1, Copied(acc, <<s[i]>>))
             ELSE IF LooksLikeMath(math_content)
             THEN replace_bracket_math(s, q + 1,
                      Stored(acc, store_math(math_content, TRUE, "bracket",
                                             acc.uuids + 1)))
             ELSE replace_bracket_math(s, q + 1, Copied(acc, SubSeq(s, i, q)))

\* the three passes, each on the text the one before returned
DisplayPass(s, ph, n) == sub_dollar(2, s, 1, [text |-> <<>>, ph |-> ph, uuids |-> n])
InlinePass(s, ph, n) == sub_dollar(1, s, 1, [text |-> <<>>, ph |-> ph, uuids |-> n])
BracketPass(s, ph, n) == replace_bracket_math(s, 1, [text |-> <<>>, ph |-> ph, uuids |-> n])

\* process_math_pre_markdown(text) when n uuids were drawn before the call
process_math_pre_markdown(s, n) ==
    LET p1 == DisplayPass(s, <<>>, n)
        p2 == InlinePass(p1.text, p1.ph, p1.uuids)
    IN  BracketPass(p2.text, p2.ph, p2.uuids)

-----------------------------------------------------------------------------
(* restore_math                                                            *)

\* for key, val in placeholders.items(): html = html.replace(key, val)
RECURSIVE restore_math(_, _)
restore_math(h, ph) ==
    IF ph = <<>> THEN h
    ELSE restore_math(Replace(h, ph[1][1], ph[1][2]), Tail(ph))

-----------------------------------------------------------------------------
(* The documents served.                                                   *)

\* the texts of at most n symbols over the alphabet A
RECURSIVE Strings(_, _)
Strings(A, n) ==
    IF n = 0 THEN {<<>>}
    ELSE LET S == Strings(A, n - 1)
         IN  S \cup {Append(s, c) : s \in {t \in S : Len(t) = n - 1}, c \in A}

\* the sequences of at most n and at least one element of L
RECURSIVE Seqs(_, _)
Seqs(L, n) ==
    IF n = 1 THEN {<<l>> : l \in L}
    ELSE LET S == Seqs(L, n - 1)
         IN  S \cup {Append(s, l) : s \in {t \in S : Len(t) = n - 1}, l \in L}

DollarDocs == Strings({"$", "a", "_", NL}, MaxLen)
BracketDocs == Strings({"[", "]", "a", "+", NL}, MaxLen)
MixedDocs == Strings({"$", "[", "]", "+"}, MaxLen)
SubscriptDocs ==
    {<<"$">> \o c \o <<"$">> : c \in Strings({"_", "a", "{", "}"}, MaxLen - 1)}

\* one span in LaTeX delimiters, \[...\] or \(...\)
LatexDocs ==
    {<<BS, d[1]>> \o c \o <<BS, d[2]>> :
        d \in {<<"[", "]">>, <<"(", ")">>}, c \in Strings({"a", "_"}, MaxLen - 3)}

Lines ==
    {<<>>, <<" ">>, <<"a">>, <<"-">>, <<"-", "a">>, <<"-", " ", "a">>,
     <<" ", "-", " ", "a">>, <<"1", ".", " ", "a">>, <<"1", ".", "a">>,
     <<"1", " ", "a">>}
LineDocs == {Join(ls) : ls \in Seqs(Lines, MaxLines)}

Docs ==
    DollarDocs \cup BracketDocs \cup MixedDocs \cup SubscriptDocs
        \cup LatexDocs \cup LineDocs

\* the documents of a concurrent run: one span each, of two different kinds
ConcDocs ==
    {<<"$", "a", "$">>, <<"[", "c", "+", "]">>}

-----------------------------------------------------------------------------
(* render_markdown, one action per statement.                              *)

Workers == DOMAIN pc

InputDocs == IF Cardinality(Workers) = 1 THEN Docs ELSE ConcDocs

\* the dicts that some worker holds
Held == {placeholders[w] : w \in Workers} \ {0}

\* (mutation) one dict of the module, which every invocation uses
SharedDict(held) == 1

\* placeholders = {}: a new dict, which no invocation holds
NewDict(held) == CHOOSE i \in DOMAIN heap : i \notin held /\ \A j \in 1 .. i - 1 : j \in held

ParagraphOpen == <<"<", "p", ">">>
ParagraphClose == <<"<", "/", "p", ">">>

\* the request arrives and the file is read
Receive(w) ==
    /\ pc[w] \in {"idle", "done"}
    /\ budget > 0
    /\ \E d \in InputDocs :
        doc' = [doc EXCEPT ![w] = d]
    /\ md_content' = [md_content EXCEPT ![w] = <<>>]
    /\ text' = [text EXCEPT ![w] = <<>>]
    /\ html' = [html EXCEPT ![w] = <<>>]
    /\ budget' = budget - 1
    /\ pc' = [pc EXCEPT ![w] = "fix"]
    /\ UNCHANGED <<placeholders, heap, uuids>>

\* md_content = fix_list_spacing(md_content)
FixListSpacing(w) ==
    /\ pc[w] = "fix"
    /\ md_content' = [md_content EXCEPT ![w] = fix_list_spacing(doc[w])]
    /\ pc' = [pc EXCEPT ![w] = "display"]
    /\ UNCHANGED <<doc, text, placeholders, heap, html, uuids, budget>>

\* process_math_pre_markdown up to the end of its first pass
ExtractDisplay(w) ==
    /\ pc[w] = "display"
    /\ LET ref == NewDict(Held)
           r == DisplayPass(md_content[w], <<>>, uuids)
       IN  /\ placeholders' = [placeholders EXCEPT ![w] = ref]
           /\ heap' = [heap EXCEPT ![ref] = r.ph]
           /\ text' = [text EXCEPT ![w] = r.text]
           /\ uuids' = r.uuids
    /\ pc' = [pc EXCEPT ![w] = "inline"]
    /\ UNCHANGED <<doc, md_content, html, budget>>

\* its second pass
ExtractInline(w) ==
    /\ pc[w] = "inline"
    /\ LET ref == placeholders[w]
           r == InlinePass(text[w], heap[ref], uuids)
       IN  /\ heap' = [heap EXCEPT ![ref] = r.ph]
           /\ text' = [text EXCEPT ![w] = r.text]
           /\ uuids' = r.uuids
    /\ pc' = [pc EXCEPT ![w] = "bracket"]
    /\ UNCHANGED <<doc, md_content, placeholders, html, budget>>

\* its third pass, and its return
ExtractBracket(w) ==
    /\ pc[w] = "bracket"
    /\ LET ref == placeholders[w]
           r == BracketPass(text[w], heap[ref], uuids)
       IN  /\ heap' = [heap EXCEPT ![ref] = r.ph]
           /\ text' = [text EXCEPT ![w] = r.text]
           /\ uuids' = r.uuids
    /\ pc' = [pc EXCEPT ![w] = "convert"]
    /\ UNCHANGED <<doc, md_content, placeholders, html, budget>>

\* md.convert(final_md_content): the library's renderer, of which the model
\* keeps two outcomes that leave the keys as they are: the text as it is,
\* and the text as one paragraph
Convert(w) ==
    /\ pc[w] = "convert"
    /\ \/ html' = [html EXCEPT ![w] = text[w]]
       \/ html' = [html EXCEPT ![w] = ParagraphOpen \o text[w] \o ParagraphClose]
    /\ pc' = [pc EXCEPT ![w] = "restore"]
    /\ UNCHANGED <<doc, md_content, text, placeholders, heap, uuids, budget>>

\* html_content = restore_math(html_content, math_placeholders)
RestoreMath(w) ==
    /\ pc[w] = "restore"
    /\ html' = [html EXCEPT ![w] = restore_math(html[w], heap[placeholders[w]])]
    /\ pc' = [pc EXCEPT ![w] = "respond"]
    /\ UNCHANGED <<doc, md_content, text, placeholders, heap, uuids, budget>>

\* return render_template(...): the locals go, and a dict that no invocation
\* holds any more is collected
Respond(w) ==
    /\ pc[w] = "respond"
    /\ LET ref == placeholders[w]
       IN  /\ placeholders' = [placeholders EXCEPT ![w] = 0]
           /\ heap' = IF \E v \in Workers \ {w} : placeholders[v] = ref
                      THEN heap
                      ELSE [heap EXCEPT ![ref] = <<>>]
    /\ md_content' = [md_content EXCEPT ![w] = <<>>]
    /\ text' = [text EXCEPT ![w] = <<>>]
    /\ pc' = [pc EXCEPT ![w] = "done"]
    /\ UNCHANGED <<doc, html, uuids, budget>>

Start(W, n) ==
    /\ pc = [w \in W |-> "idle"]
    /\ doc = [w \in W |-> <<>>]
    /\ md_content = [w \in W |-> <<>>]
    /\ text = [w \in W |-> <<>>]
    /\ placeholders = [w \in W |-> 0]
    /\ heap = [i \in W |-> <<>>]
    /\ html = [w \in W |-> <<>>]
    /\ uuids = 0
    /\ budget = n

\* one request, of any document of Docs
Init == Start({1}, 1)

\* NumWorkers invocations at a time, MaxRequests requests in all
InitConc == Start(1 .. NumWorkers, MaxRequests)

Next ==
    \/ \E w \in Workers : Receive(w)
    \/ \E w \in Workers : FixListSpacing(w)
    \/ \E w \in Workers : ExtractDisplay(w)
    \/ \E w \in Workers : ExtractInline(w)
    \/ \E w \in Workers : ExtractBracket(w)
    \/ \E w \in Workers : Convert(w)
    \/ \E w \in Workers : RestoreMath(w)
    \/ \E w \in Workers : Respond(w)

Spec == Init /\ [][Next]_vars

SpecConc == InitConc /\ [][Next]_vars

-----------------------------------------------------------------------------
(* Vocabulary of the properties.                                           *)

\* the dict of worker w, while it holds one
Dict(w) == heap[placeholders[w]]

\* process_math_pre_markdown has returned to w, which has not yet responded
Extracted(w) == pc[w] \in {"convert", "restore", "respond"}

\* the html of w without the paragraph tags of the renderer
Body(w) ==
    IF html[w] # <<>> /\ html[w][1] = "<"
        THEN SubSeq(html[w], Len(ParagraphOpen) + 1,
                    Len(html[w]) - Len(ParagraphClose))
    ELSE html[w]

HasKey(s) == \E i \in 1 .. Len(s) : IsKey(s[i])

Count(s, c) == Cardinality({i \in 1 .. Len(s) : s[i] = c})

\* no symbol of s is in D
Free(s, D) == \A i \in 1 .. Len(s) : s[i] \notin D

Delims == {"$", "[", "]"}

Before(s, i) == SubSeq(s, 1, i - 1)
Between(s, i, j) == SubSeq(s, i + 1, j - 1)

\* s is  pre $ c $ post  with the "$" at i and j, c not empty, and no other
\* delimiter
InlineAt(s, i, j) ==
    /\ i + 1 < j /\ j <= Len(s)
    /\ s[i] = "$" /\ s[j] = "$"
    /\ Free(Before(s, i), Delims)
    /\ Free(Between(s, i, j), Delims)
    /\ Free(From(s, j + 1), Delims)

\* s is  pre $$ c $$ post  with the "$$" at i and j, and no other delimiter
DisplayAt(s, i, j) ==
    /\ i + 2 <= j /\ j + 1 <= Len(s)
    /\ s[i] = "$" /\ s[i + 1] = "$" /\ s[j] = "$" /\ s[j + 1] = "$"
    /\ Free(Before(s, i), Delims)
    /\ Free(Between(s, i + 1, j), Delims)
    /\ Free(From(s, j + 2), Delims)

\* s is  pre [ c ] post  with the brackets at i and j: the first "[" and the
\* first "]" after it, no "[" after that, and no "$"
BracketAt(s, i, j) ==
    /\ i < j /\ j <= Len(s)
    /\ s[i] = "[" /\ s[j] = "]"
    /\ Free(Before(s, i), {"[", "$"})
    /\ Free(Between(s, i, j), {"]", "$"})
    /\ Free(From(s, j + 1), {"[", "$"})

\* s is  pre \[ c \] post  or  pre \( c \) post  with the backslashes at i
\* and j, and neither delimiter nor backslash elsewhere
LatexAt(s, i, j, open, close) ==
    /\ i + 1 < j /\ j + 1 <= Len(s)
    /\ s[i] = BS /\ s[i + 1] = open /\ s[j] = BS /\ s[j + 1] = close
    /\ Free(Before(s, i), Delims \cup {BS, "(", ")"})
    /\ Free(Between(s, i + 1, j), Delims \cup {BS, "(", ")"})
    /\ Free(From(s, j + 2), Delims \cup {BS, "(", ")"})

Pos(s) == 1 .. Len(s)

-----------------------------------------------------------------------------
(* Placeholders: C1, C10.                                                  *)

\* the number of occurrences that restore_math(h, ph) replaces
RECURSIVE Replaced(_, _)
Replaced(h, ph) ==
    IF ph = <<>> THEN 0
    ELSE Count(h, ph[1][1])
             + Replaced(Replace(h, ph[1][1], ph[1][2]), Tail(ph))

(* C1: when process_math_pre_markdown has stored N spans, their N keys are  *)
(* distinct, restore_math replaces exactly N occurrences of a key in the    *)
(* rendered text (the renderer having left the keys as they were), and the  *)
(* final output holds no key.                                               *)
C1_NoOrphanTokens ==
    \A w \in Workers :
        pc[w] = "respond" =>
            LET ph == Dict(w)
                N == Len(ph)
            IN  /\ Cardinality({ph[i][1] : i \in 1 .. N}) = N
                /\ Replaced(text[w], ph) = N
                /\ ~HasKey(html[w])

(* C10: in the result of process_math_pre_markdown no stored value holds a  *)
(* key (no pass has swallowed the placeholder of an earlier pass), and      *)
(* every key generated occurs in the text returned.  The order of the       *)
(* passes is that of the actions ExtractDisplay, ExtractInline,             *)
(* ExtractBracket.                                                          *)
C10_NoSwallowedPlaceholder ==
    \A w \in Workers :
        Extracted(w) =>
            LET ph == Dict(w)
            IN  \A i \in 1 .. Len(ph) :
                    /\ ~HasKey(ph[i][2])
                    /\ Count(text[w], ph[i][1]) >= 1

-----------------------------------------------------------------------------
(* Unterminated delimiters: C4.                                            *)

\* s has an opening "$", "$$" or "[" that nothing closes, and no other
\* delimiter
Unterminated(s) ==
    \/ /\ Count(s, "$") = 1
       /\ Free(s, {"[", "]"})
    \/ /\ Count(s, "$") = 2
       /\ \E i \in 1 .. Len(s) - 1 : s[i] = "$" /\ s[i + 1] = "$"
       /\ Free(s, {"[", "]"})
    \/ /\ Count(s, "[") >= 1
       /\ Free(From(s, Find(s, "[", 1)), {"]"})
       /\ Free(s, {"$"})

(* C4: a document whose only delimiter is an opening "$", "$$" or "[" with  *)
(* no close is matched by no pass: process_math_pre_markdown returns it as  *)
(* it is and stores nothing, and after restore_math the output is the       *)
(* document.                                                                *)
C4_UnterminatedUntouched ==
    \A w \in Workers :
        (Extracted(w) /\ Unterminated(md_content[w])) =>
            /\ text[w] = md_content[w]
            /\ Dict(w) = <<>>
            /\ (pc[w] = "respond" => Body(w) = md_content[w])

-----------------------------------------------------------------------------
(* Round trip: C3.                                                         *)

OpenForms ==
    {<<"$">>, <<"$", " ">>, <<"$", "$">>, <<"$", "$", " ">>,
     <<BS, "(">>, <<BS, "(", " ">>, <<BS, "[">>, <<BS, "[", " ">>}

CloseForms ==
    {<<"$">>, <<" ", "$">>, <<"$", "$">>, <<" ", "$", "$">>,
     <<BS, ")">>, <<" ", BS, ")">>, <<BS, "]">>, <<" ", BS, "]">>}

\* the output of w is pre, c and post as they were, with c between some
\* pair of delimiters
SameContent(w, pre, c, post) ==
    \E o \in OpenForms, cl \in CloseForms :
        Body(w) = pre \o o \o c \o cl \o post

\* fix_math_content leaves c as it is: no line break, no bare subscript
Plain(c) == fix_math_content(c) = c

(* C3: for a document with one well-formed span, in $...$, $$...$$,         *)
(* \[...\] or \(...\), extraction followed by restoration gives the         *)
(* document with the content of the span byte for byte as it was; only      *)
(* the delimiters may have changed.  Stated here for the spans whose        *)
(* content the normaliser leaves alone, where the rewrite of the content    *)
(* by fix_math_content is not what is at stake.                             *)
C3_RoundTrip ==
    \A w \in Workers :
        pc[w] = "respond" =>
            LET s == md_content[w]
            IN  \A i, j \in Pos(s) :
                    /\ (InlineAt(s, i, j) /\ Plain(Between(s, i, j))) =>
                           SameContent(w, Before(s, i), Between(s, i, j),
                                       From(s, j + 1))
                    /\ (DisplayAt(s, i, j) /\ Plain(Between(s, i + 1, j))) =>
                           SameContent(w, Before(s, i), Between(s, i + 1, j),
                                       From(s, j + 2))
                    /\ (LatexAt(s, i, j, "[", "]") /\ Plain(Between(s, i + 1, j))) =>
                           SameContent(w, Before(s, i), Between(s, i + 1, j),
                                       From(s, j + 2))
                    /\ (LatexAt(s, i, j, "(", ")") /\ Plain(Between(s, i + 1, j))) =>
                           SameContent(w, Before(s, i), Between(s, i + 1, j),
                                       From(s, j + 2))

-----------------------------------------------------------------------------
(* Delimiters of the restored spans: C2.                                   *)

\* the output of w is pre and post as they were, with the normalised
\* content c between the delimiters o and cl, one space inside each
Rewrapped(w, pre, o, c, cl, post) ==
    Body(w) = pre \o o \o <<" ">> \o fix_math_content(c) \o <<" ">> \o cl \o post

\* v is some content between the delimiters o and cl, one space inside each
WrappedIn(v, o, cl) ==
    /\ Len(v) >= Len(o) + Len(cl) + 2
    /\ SubSeq(v, 1, Len(o) + 1) = o \o <<" ">>
    /\ SubSeq(v, Len(v) - Len(cl), Len(v)) = <<" ">> \o cl

-----------------------------------------------------------------------------
(* The bracket heuristic: C5.                                              *)

(* C5: in a document  pre [ c ] post  (the brackets being the first "[" and *)
(* the first "]" after it, with no "$" and no further "["), if c holds no   *)
(* formula character the text is returned as it is and nothing is stored;   *)
(* if c holds one, one span is stored and the output is                     *)
(* pre \[ c' \] post, c' being c stripped and normalised, which is c        *)
(* itself when c has no space around it, no line break and no bare          *)
(* subscript.                                                               *)
C5_BracketHeuristic ==
    \A w \in Workers :
        Extracted(w) =>
            LET s == md_content[w]
            IN  \A i, j \in Pos(s) :
                    BracketAt(s, i, j) =>
                        LET c == Between(s, i, j)
                        IN  IF Free(c, FormulaChars)
                            THEN /\ text[w] = s
                                 /\ Dict(w) = <<>>
                                 /\ (pc[w] = "respond" => Body(w) = s)
                            ELSE /\ Len(Dict(w)) = 1
                                 /\ text[w] = Before(s, i)
                                        \o <<Dict(w)[1][1]>> \o From(s, j + 1)
                                 /\ (pc[w] = "respond" =>
                                        /\ Rewrapped(w, Before(s, i), <<BS, "[">>,
                                                     Strip(c), <<BS, "]">>,
                                                     From(s, j + 1))
                                        /\ (Strip(c) = c /\ Free(c, {NL, "_"})) =>
                                               Body(w) = Before(s, i)
                                                   \o <<BS, "[", " ">> \o c
                                                   \o <<" ", BS, "]">>
                                                   \o From(s, j + 1))

\* the document [a+a] has been served as \[ a+a \]
C5_Witness ==
    \E w \in Workers :
        /\ pc[w] = "respond"
        /\ md_content[w] = <<"[", "a", "+", "a", "]">>
        /\ html[w] = <<BS, "[", " ", "a", "+", "a", " ", BS, "]">>

-----------------------------------------------------------------------------
(* fix_list_spacing: C6.                                                   *)

\* the lines of the document read, and of the document repaired
DocLines(w) == Split(doc[w])
FixedLines(w) == Split(md_content[w])

\* line i of the document is a list item, is not the first line, and the
\* line before it is neither blank nor a list item
StartsList(L, i) ==
    /\ i > 1
    /\ list_item_pattern(L[i])
    /\ \E k \in 1 .. Len(L[i - 1]) : ~IsSpace(L[i - 1][k])
    /\ ~list_item_pattern(L[i - 1])

\* where line i of the document is in the repaired document
Moved(L, i) == i + Cardinality({k \in 1 .. i : StartsList(L, k)})

(* C6: the repaired document is the document with one empty line before    *)
(* each line that starts a list, and nothing else changed; "a\n- a"        *)
(* becomes "a\n\n- a" and "- a\n- a" stays as it is.                       *)
C6_BlankLineBeforeList ==
    \A w \in Workers :
        pc[w] \notin {"idle", "fix", "done"} =>
            LET L == DocLines(w)
                R == FixedLines(w)
            IN  /\ Len(R) = Moved(L, Len(L))
                /\ \A i \in 1 .. Len(L) :
                       /\ R[Moved(L, i)] = L[i]
                       /\ StartsList(L, i) => R[Moved(L, i) - 1] = <<>>
                /\ doc[w] = <<"a", NL, "-", " ", "a">> =>
                       md_content[w] = <<"a", NL, NL, "-", " ", "a">>
                /\ doc[w] = <<"-", " ", "a", NL, "-", " ", "a">> =>
                       md_content[w] = doc[w]

\* the document "a\n- a\n- a" has been repaired to "a\n\n- a\n- a"
C6_Witness ==
    \E w \in Workers :
        /\ pc[w] = "display"
        /\ doc[w] = <<"a", NL, "-", " ", "a", NL, "-", " ", "a">>
        /\ md_content[w] = <<"a", NL, NL, "-", " ", "a", NL, "-", " ", "a">>

-----------------------------------------------------------------------------
(* fix_math_content: C7, C9.                                               *)

\* the content of a stored value, without the delimiters and the spaces
\* store_math has put around it
Content(v) ==
    IF v[1] = "$" /\ v[2] = " " THEN SubSeq(v, 3, Len(v) - 2)
    ELSE SubSeq(v, 4, Len(v) - 3)

(* C7: fix_math_content is idempotent: for every piece c of the document,   *)
(* fix_math_content(fix_math_content(c)) = fix_math_content(c); every       *)
(* content stored is left as it is by fix_math_content; and a content       *)
(* without line break whose "_" are all followed by "{" is stored as it     *)
(* was written.                                                             *)
C7_BracingIdempotent ==
    \A w \in Workers :
        /\ pc[w] = "display" =>
               \A i, j \in Pos(md_content[w]) :
                   LET c == SubSeq(md_content[w], i, j)
                   IN  fix_math_content(fix_math_content(c)) = fix_math_content(c)
        /\ Extracted(w) =>
               /\ \A e \in 1 .. Len(Dict(w)) :
                      LET c == Content(Dict(w)[e][2])
                      IN  fix_math_content(c) = c
               /\ \A i, j \in Pos(md_content[w]) :
                      LET c == Between(md_content[w], i, j)
                      IN  (/\ InlineAt(md_content[w], i, j)
                           /\ Free(c, {NL})
                           /\ \A k \in Pos(c) :
                                  c[k] = "_" => (k < Len(c) /\ c[k + 1] = "{"))
                              => Dict(w)[1][2] = <<"$", " ">> \o c \o <<" ", "$">>

\* the document $_{a}$ has been served as $ _{a} $
C7_Witness ==
    \E w \in Workers :
        /\ pc[w] = "respond"
        /\ md_content[w] = <<"$", "_", "{", "a", "}", "$">>
        /\ html[w] = <<"$", " ", "_", "{", "a", "}", " ", "$">>

\* c with a space for each line break
Spaced(c) == [k \in 1 .. Len(c) |-> IF c[k] = NL THEN " " ELSE c[k]]

(* C9: no value stored holds a line break, and a span whose content has     *)
(* line breaks (and no subscript) is restored with one space for each of    *)
(* them, the rest of the content as it was: the content of $ c $, and the   *)
(* stripped content of a math bracket.                                      *)
C9_NoLineBreakInMath ==
    \A w \in Workers :
        /\ Extracted(w) =>
               \A e \in 1 .. Len(Dict(w)) : Free(Dict(w)[e][2], {NL})
        /\ pc[w] = "respond" =>
               LET s == md_content[w]
               IN  \A i, j \in Pos(s) :
                       /\ (InlineAt(s, i, j) /\ Free(Between(s, i, j), {"_"})) =>
                              Body(w) = Before(s, i) \o <<"$", " ">>
                                            \o Spaced(Between(s, i, j))
                                            \o <<" ", "$">> \o From(s, j + 1)
                       /\ (BracketAt(s, i, j)
                               /\ ~Free(Between(s, i, j), FormulaChars \ {"_"})
                               /\ Free(Between(s, i, j), {"_"})) =>
                              Body(w) = Before(s, i) \o <<BS, "[", " ">>
                                            \o Spaced(Strip(Between(s, i, j)))
                                            \o <<" ", BS, "]">> \o From(s, j + 1)

\* the span written "$a", line break, "a$" has been served as $ a a $
C9_Witness ==
    \E w \in Workers :
        /\ pc[w] = "respond"
        /\ md_content[w] = <<"$", "a", NL, "a", "$">>
        /\ html[w] = <<"$", " ", "a", " ", "a", " ", "$">>

-----------------------------------------------------------------------------
(* Concurrent and successive invocations: C8.                              *)

\* the values of the entries, in the order of insertion
Vals(ph) == [e \in 1 .. Len(ph) |-> ph[e][2]]

\* what the passes store for the text s when nothing else runs
AloneDisplay(s) == DisplayPass(s, <<>>, 0)
AloneInline(s) == InlinePass(AloneDisplay(s).text, AloneDisplay(s).ph, AloneDisplay(s).uuids)
Alone(s) == process_math_pre_markdown(s, 0)

(* C8: under every interleaving of the invocations, no two of them hold the *)
(* same dict; the dict of an invocation holds, after each pass, the spans   *)
(* of its own document and no other; its output is the output its document  *)
(* has when served alone; and an invocation that has not begun to extract,  *)
(* or has responded, holds no dict.                                         *)
C8_InvocationsIsolated ==
    /\ \A w, v \in Workers :
           (w # v /\ placeholders[w] # 0) => placeholders[w] # placeholders[v]
    /\ \A w \in Workers :
           /\ pc[w] \in {"idle", "fix", "display", "done"} => placeholders[w] = 0
           /\ pc[w] = "inline" =>
                  Vals(Dict(w)) = Vals(AloneDisplay(md_content[w]).ph)
           /\ pc[w] = "bracket" =>
                  Vals(Dict(w)) = Vals(AloneInline(md_content[w]).ph)
           /\ Extracted(w) =>
                  /\ Vals(Dict(w)) = Vals(Alone(md_content[w]).ph)
                  /\ \A e \in 1 .. Len(Dict(w)) :
                         Count(text[w], Dict(w)[e][1]) = 1
           /\ pc[w] \in {"respond", "done"} =>
                  LET alone == Alone(fix_list_spacing(doc[w]))
                  IN  Body(w) = restore_math(alone.text, alone.ph)

\* two invocations, of different documents, are about to restore their
\* spans, after an earlier invocation has responded
C8_Witness ==
    \E w, v \in Workers :
        /\ w # v
        /\ pc[w] = "restore" /\ pc[v] = "restore"
        /\ doc[w] # doc[v]
        /\ Dict(w) # <<>> /\ Dict(v) # <<>>
        /\ budget = 0

=============================================================================
